---- MODULE Spec2Model ----
(***************************************************************************)
(* Model of src/analyze.py: the `analyze` command.  One run walks the      *)
(* directories, parses the annotation files, measures every shape of every *)
(* kept record (scale from EXIF metadata, or pixel fallback with OCR of    *)
(* the markers 1..12) and then writes the records back.                    *)
(*                                                                         *)
(* Representation:                                                         *)
(*  - a text is a sequence of one-character strings;                       *)
(*  - a number the code holds as a float is an exact reduced fraction      *)
(*    <<num, den>>; the inputs are drawn so that no value is a rounding    *)
(*    tie of "%.2f" unless it is exactly representable in binary;          *)
(*  - an optional key of a dict (or an attribute that may be missing) is a *)
(*    sequence of zero or one value;                                       *)
(*  - a marker centre is kept doubled (2*x, 2*y), the centre being the     *)
(*    half sum of two corners.                                             *)
(***************************************************************************)
EXTENDS Integers, Sequences, FiniteSets, TLC

\* Number of annotation files on disk in a run of Spec.
NumFiles == 2
\* Longest list of OCR detections of the scanned image in SpecOcr.
MaxDet == 2

\* 10**6 of `pix_size = user_comment["effectivePixelSize"] / 10**6`.
Million == 1000000

\* --ext and --exif-ext (their defaults).
ext == ".json"
exif_ext == ".jpg"

(***************************************************************************)
(* Arithmetic on fractions                                                 *)
(***************************************************************************)
Abs(n) == IF n < 0 THEN -n ELSE n

RECURSIVE GCD(_, _)
GCD(a, b) == IF b = 0 THEN a ELSE GCD(b, a % b)

\* The fraction n/d (d > 0) in lowest terms.
Rat(n, d) == LET g == GCD(Abs(n), d) IN <<n \div g, d \div g>>

RatMul(p, q) == Rat(p[1] * q[1], p[2] * q[2])
RatDiv(p, q) == Rat(p[1] * q[2], p[2] * q[1])

(***************************************************************************)
(* Text                                                                    *)
(***************************************************************************)
DigitChars == <<"0", "1", "2", "3", "4", "5", "6", "7", "8", "9">>

Str_Area == <<"A", "r", "e", "a", ":", " ">>
Str_mm2 == <<" ", "m", "m", "²">>
Str_pixels2 == <<" ", "p", "i", "x", "e", "l", "s", "²">>
Str_dash == <<" ", "-", " ">>

\* str(n) for n >= 0.
RECURSIVE IntToStr(_)
IntToStr(n) ==
    IF n < 10 THEN <<DigitChars[n + 1]>>
    ELSE IntToStr(n \div 10) \o <<DigitChars[(n % 10) + 1]>>

\* The value of one digit character.
DigitVal(c) == CHOOSE k \in 0..9 : DigitChars[k + 1] = c

IsDigit(c) == \E k \in 0..9 : DigitChars[k + 1] = c

\* f"{area:.2f}" for area >= 0: the decimal with two places nearest to the
\* value, a tie going to the even last digit.
FormatF2(area) ==
    LET n == 100 * area[1]
        d == area[2]
        q == n \div d
        r == n % d
        h == IF 2 * r > d \/ (2 * r = d /\ q % 2 = 1) THEN q + 1 ELSE q
    IN IntToStr(h \div 100) \o <<".">>
         \o <<DigitChars[((h \div 10) % 10) + 1], DigitChars[(h % 10) + 1]>>

(***************************************************************************)
(* The marker pattern  re.compile(r'^(1[0-2]|[1-9])$')                     *)
(***************************************************************************)
\* `$`: at the end of the text, or just before a newline that ends it.
AtDollar(text, pos) ==
    \/ pos = Len(text) + 1
    \/ pos = Len(text) /\ text[pos] = "\n"

\* First alternative 1[0-2]: the position after it, 0 if it does not match.
AltTen(text) ==
    IF Len(text) >= 2 /\ text[1] = "1" /\ text[2] \in {"0", "1", "2"}
    THEN 3 ELSE 0

\* Second alternative [1-9].
AltDigit(text) ==
    IF Len(text) >= 1 /\ IsDigit(text[1]) /\ text[1] # "0" THEN 2 ELSE 0

\* pattern.match(text) is not None
PatternMatch(text) ==
    \/ AltTen(text) # 0 /\ AtDollar(text, AltTen(text))
    \/ AltDigit(text) # 0 /\ AtDollar(text, AltDigit(text))

\* text without its leading and trailing whitespace, as int() reads it.
RECURSIVE StripWs(_)
StripWs(text) ==
    IF text = <<>> THEN text
    ELSE IF Head(text) \in {" ", "\n"} THEN StripWs(Tail(text))
    ELSE IF text[Len(text)] \in {" ", "\n"}
         THEN StripWs(SubSeq(text, 1, Len(text) - 1))
    ELSE text

RECURSIVE DigitsValue(_)
DigitsValue(ds) ==
    IF ds = <<>> THEN 0
    ELSE 10 * DigitsValue(SubSeq(ds, 1, Len(ds) - 1)) + DigitVal(ds[Len(ds)])

\* int(text), for a text the pattern matched.
IntOf(text) == DigitsValue(StripWs(text))

(***************************************************************************)
(* Geometry: shapely.geometry.Polygon(points).area and .centroid           *)
(***************************************************************************)
Cross(p, q) == p[1] * q[2] - q[1] * p[2]

NextPt(pts, i) == pts[(i % Len(pts)) + 1]

RECURSIVE SumCross(_, _)
SumCross(pts, i) ==
    IF i = 0 THEN 0 ELSE SumCross(pts, i - 1) + Cross(pts[i], NextPt(pts, i))

\* Sum over the edges of (p[k] + q[k]) * cross(p, q), k = 1 for x, 2 for y.
RECURSIVE SumMoment(_, _, _)
SumMoment(pts, i, k) ==
    IF i = 0 THEN 0
    ELSE SumMoment(pts, i - 1, k)
           + (pts[i][k] + NextPt(pts, i)[k]) * Cross(pts[i], NextPt(pts, i))

\* Twice the signed area of the ring.
Twice(pts) == SumCross(pts, Len(pts))

\* poly.area: the unsigned area.
PolyArea(pts) == Rat(Abs(Twice(pts)), 2)

\* poly.centroid, as <<numerator of x, numerator of y, denominator>> in lowest
\* terms: centroid = (Sx, Sy) / (3 * twice the signed area).
PolyCentroid(pts) ==
    LET s == IF Twice(pts) < 0 THEN -1 ELSE 1
        sx == s * SumMoment(pts, Len(pts), 1)
        sy == s * SumMoment(pts, Len(pts), 2)
        d == 3 * s * Twice(pts)
        g == GCD(GCD(Abs(sx), Abs(sy)), d)
    IN <<sx \div g, sy \div g, d \div g>>

\* The square of the distance `distance` of line 120 between a marker centre
\* (doubled coordinates c2) and a centroid, times (2 * centroid denominator)^2,
\* which is the same for every marker compared with one shape.
Dist2(c2, cen) ==
    LET dx == cen[3] * c2[1] - 2 * cen[1]
        dy == cen[3] * c2[2] - 2 * cen[2]
    IN dx * dx + dy * dy

(***************************************************************************)
(* Inputs: images, shapes, annotation files                                *)
(***************************************************************************)
None == <<>>

\* A bounding box of reader.readtext: (top_left, top_right, bottom_right,
\* bottom_left).
BoxAt(x1, y1, x2, y2) == <<<<x1, y1>>, <<x2, y1>>, <<x2, y2>>, <<x1, y2>>>>

Det(box, text) == [bbox |-> box, text |-> text]

\* The JSON of a user comment.
Comment(e, m) == [parses |-> TRUE, effectivePixelSize |-> e, objectiveMag |-> m]

ImageFile(sfx, ex, he, uc, res) ==
    [suffix |-> sfx, exists |-> ex, has_exif |-> he, user_comment |-> uc,
     results |-> res]

MarkerResults ==
    <<Det(BoxAt(98, 98, 102, 102), <<"7">>),
      Det(BoxAt(0, 0, 6, 6), <<"1", "3">>),
      Det(BoxAt(100, 100, 104, 102), <<"7">>),
      Det(BoxAt(3, 1, 8, 4), <<"1", "2">>)>>

PlateResults ==
    <<Det(BoxAt(0, 0, 2, 1), <<"5">>),
      Det(BoxAt(9, 2, 11, 3), <<"1", "0">>),
      Det(BoxAt(4, 2, 6, 3), <<"5">>),
      Det(BoxAt(20, 20, 30, 30), <<"0", "7">>)>>

ImageNames ==
    {"m10.jpg", "m4.jpg", "plain.jpg", "nocomment.jpg", "badjson.jpg",
     "nokey.jpg", "scan.png", "gone.png"}

\* A shape of an annotation file; label and area are optional keys.
ShapeOf(pts, lab) ==
    [points |-> pts, shape_type |-> "polygon", label |-> lab, area |-> None]

Sq50 == ShapeOf(<<<<0, 0>>, <<10, 0>>, <<10, 5>>, <<0, 5>>>>, None)
RectCw2 ==
    ShapeOf(<<<<0, 0>>, <<0, 1>>, <<2, 1>>, <<2, 0>>>>, <<<<"c", "e", "l", "l">>>>)
Rect8 ==
    ShapeOf(<<<<100, 100>>, <<104, 100>>, <<104, 102>>, <<100, 102>>>>, None)
SqA == ShapeOf(<<<<0, 0>>, <<4, 0>>, <<4, 4>>, <<0, 4>>>>, None)
SqB == ShapeOf(<<<<2, 4>>, <<6, 4>>, <<6, 8>>, <<2, 8>>>>, None)

ShapeLists == {<<Sq50>>, <<RectCw2, Rect8>>}

\* A parsed annotation file; "shapes" is an optional key.
DocOf(img, shp) == [imagePath |-> img, version |-> "5.0", shapes |-> shp]

Docs ==
    {DocOf(n, <<l>>) : n \in ImageNames, l \in ShapeLists}
      \cup {DocOf("plain.jpg", None), DocOf("m10.jpg", <<<<>>>>)}

\* What a file on disk holds: text that json.load parses to doc, or does not.
Contents ==
    {[parses |-> TRUE, doc |-> d] : d \in Docs}
      \cup {[parses |-> FALSE, doc |-> DocOf("plain.jpg", None)]}

\* The box of the i-th detection of the scanned image of SpecOcr.
DetBox(i) ==
    CASE i = 1 -> BoxAt(-1, 1, 1, 3)
      [] i = 2 -> BoxAt(3, 1, 5, 3)
      [] OTHER -> BoxAt(i - 1, i + 1, i + 2, i + 4)

OcrAlphabet == {"0", "1", "2", "\n"}

\* The texts a detection of the scanned image may carry.
OcrTexts ==
    {<<>>} \cup {<<a>> : a \in OcrAlphabet}
      \cup {<<a, b>> : a \in OcrAlphabet, b \in OcrAlphabet}
      \cup {<<"1", "3">>, <<"1", "2", "\n">>, <<"0", "1", "2">>, <<" ", "7">>,
            <<"-", "1">>, <<"7">>}

RECURSIVE TextLists(_)
TextLists(n) ==
    IF n = 0 THEN {<<>>}
    ELSE TextLists(n - 1)
           \cup {Append(l, t) : l \in {k \in TextLists(n - 1) : Len(k) = n - 1},
                                t \in OcrTexts}

DetList(texts) == [i \in 1..Len(texts) |-> Det(DetBox(i), texts[i])]

(***************************************************************************)
(* The directory tree                                                      *)
(***************************************************************************)
\* The entries of os.listdir(dir), as (path, is a directory, suffix).  The
\* annotation file p lies in "root" when p is odd and in "root/sub" otherwise.
Entry(path, isdir, sfx) == [path |-> path, isdir |-> isdir, suffix |-> sfx]

RECURSIVE FileEntries(_, _, _)
FileEntries(n, parity, paths) ==
    IF n = 0 THEN <<>>
    ELSE FileEntries(n - 1, parity, paths)
           \o (IF n \in paths /\ n % 2 = parity
               THEN <<Entry(n, FALSE, ".json")>> ELSE <<>>)

ListDir(dir, paths) ==
    IF dir = "root"
    THEN FileEntries(Cardinality(paths), 1, paths)
           \o <<Entry("root/sub", TRUE, ""), Entry("root/notes.txt", FALSE, ".txt")>>
    ELSE FileEntries(Cardinality(paths), 0, paths)

(***************************************************************************)
(* State                                                                   *)
(***************************************************************************)
VARIABLES
    disk,            \* annotation path -> what the file holds
    disk0,           \* the disk when the run started
    scanned,         \* what reader.readtext returns for "scan.png"
    pc,              \* "scan", "parse", "begin", "ocr", "shapes", "write",
                     \* "done", or "fault" after an unhandled exception
    fault,           \* the exception that ended the run, "" if none
    todo, found,     \* discovery worklist and the paths found
    pi,              \* index in found of the file parsed next
    data,            \* the dict data, in insertion order: (entry, d)
    ri, si, oi,      \* indices of the record, shape and detection in hand
    pix_size, mag, exif_found,
    results, ocr_text_map, unique_numbers,
    wi,              \* index in data of the record written next
    log              \* what was printed

vars ==
    <<disk, disk0, scanned, pc, fault, todo, found, pi, data, ri, si, oi,
      pix_size, mag, exif_found, results, ocr_text_map, unique_numbers, wi, log>>

\* The image files the annotation files refer to: image path -> image file.
images ==
    [n \in ImageNames |->
       CASE n = "m10.jpg" ->
              ImageFile(".jpg", TRUE, TRUE, <<Comment(<<2000000>>, <<10>>)>>,
                        MarkerResults)
         [] n = "m4.jpg" ->
              ImageFile(".jpg", TRUE, TRUE, <<Comment(<<250000>>, <<4>>)>>,
                        PlateResults)
         [] n = "plain.jpg" ->
              ImageFile(".jpg", TRUE, FALSE, None, MarkerResults)
         [] n = "nocomment.jpg" ->
              ImageFile(".jpg", TRUE, TRUE, None, <<>>)
         [] n = "badjson.jpg" ->
              ImageFile(".jpg", TRUE, TRUE,
                        <<[parses |-> FALSE, effectivePixelSize |-> None,
                           objectiveMag |-> None]>>, PlateResults)
         [] n = "nokey.jpg" ->
              ImageFile(".jpg", TRUE, TRUE, <<Comment(<<2000000>>, None)>>,
                        PlateResults)
         [] n = "scan.png" ->
              ImageFile(".png", TRUE, TRUE, <<Comment(<<2000000>>, <<10>>)>>,
                        scanned)
         [] n = "gone.png" ->
              ImageFile(".png", FALSE, FALSE, None, <<>>)]

Msg(kind, arg) == [kind |-> kind, arg |-> arg]

\* A local name of the function that no assignment has bound yet.
Unbound == [bound |-> FALSE, items |-> <<>>]

Start(d, sc) ==
    /\ disk = d
    /\ disk0 = d
    /\ scanned = sc
    /\ pc = "scan"
    /\ fault = ""
    /\ todo = <<"root">>
    /\ found = <<>>
    /\ pi = 1
    /\ data = <<>>
    /\ ri = 0
    /\ si = 0
    /\ oi = 0
    /\ pix_size = None
    /\ mag = None
    /\ exif_found = FALSE
    /\ results = <<>>
    /\ ocr_text_map = Unbound
    /\ unique_numbers = {}
    /\ wi = 0
    /\ log = <<>>

Init == \E d \in [1..NumFiles -> Contents] : Start(d, PlateResults)

\* One annotation file whose image is the scan, with any list of detections.
InitOcr ==
    \E texts \in TextLists(MaxDet) :
        Start([p \in {1} |->
                 [parses |-> TRUE,
                  doc |-> DocOf("scan.png", <<<<SqA, SqB>>>>)]],
              DetList(texts))

(***************************************************************************)
(* Discovery (lines 22-38)                                                 *)
(***************************************************************************)
RECURSIVE SubDirs(_)
SubDirs(entries) ==
    IF entries = <<>> THEN <<>>
    ELSE (IF Head(entries).isdir THEN <<Head(entries).path>> ELSE <<>>)
           \o SubDirs(Tail(entries))

\* entry.endswith(ext), for the entries that are not directories.
RECURSIVE Matching(_)
Matching(entries) ==
    IF entries = <<>> THEN <<>>
    ELSE (IF ~Head(entries).isdir /\ Head(entries).suffix = ext
          THEN <<Head(entries).path>> ELSE <<>>)
           \o Matching(Tail(entries))

\* Where the run goes once the parsing loop has ended.
AfterParse(dat) == IF Len(dat) = 0 THEN "done" ELSE "begin"

\* One turn of `while todo`.
ScanDir ==
    /\ pc = "scan"
    /\ todo # <<>>
    /\ LET dir == todo[Len(todo)]
           entries == ListDir(dir, DOMAIN disk)
           todo1 == SubSeq(todo, 1, Len(todo) - 1) \o SubDirs(entries)
           found1 == found \o Matching(entries)
       IN /\ todo' = todo1
          /\ found' = found1
          /\ pc' = IF todo1 # <<>> THEN "scan"
                   ELSE IF found1 # <<>> THEN "parse"
                   ELSE "done"
    /\ UNCHANGED <<disk, disk0, scanned, fault, pi, data, ri, si, oi, pix_size,
                   mag, exif_found, results, ocr_text_map, unique_numbers, wi,
                   log>>

(***************************************************************************)
(* Parsing (lines 40-49)                                                   *)
(***************************************************************************)
\* A parsing loop that keeps every file that parses.
HasShapesAlways(d) == TRUE

\* "shapes" in d
HasShapes(d) == Len(d.shapes) = 1

\* One turn of the parsing loop.
ParseFile ==
    /\ pc = "parse"
    /\ LET entry == found[pi]
           f == disk[entry]
           last == pi = Len(found)
       IN IF ~f.parses
          THEN /\ pc' = "fault"
               /\ fault' = "JSONDecodeError"
               /\ UNCHANGED <<data, log, pi, ri, wi>>
          ELSE LET data1 == IF HasShapes(f.doc)
                            THEN Append(data, [entry |-> entry, d |-> f.doc])
                            ELSE data
               IN /\ data' = data1
                  /\ log' = IF HasShapes(f.doc) THEN log
                            ELSE Append(log, Msg("no shapes data", entry))
                  /\ pi' = pi + 1
                  /\ pc' = IF last THEN AfterParse(data1) ELSE "parse"
                  /\ ri' = IF last /\ Len(data1) > 0 THEN 1 ELSE ri
                  /\ UNCHANGED <<fault, wi>>
    /\ UNCHANGED <<disk, disk0, scanned, todo, found, si, oi, pix_size, mag,
                   exif_found, results, ocr_text_map, unique_numbers>>

(***************************************************************************)
(* Scale resolution (lines 53-84)                                          *)
(***************************************************************************)
\* image_path.endswith(exif_ext)
IsExifPath(img) == img.suffix = exif_ext

\* e.has_exif and hasattr(e, "user_comment")
HasUserComment(img) == img.has_exif /\ Len(img.user_comment) = 1

\* The value of exif_found after lines 57-68, if they complete.
ExifFound(img) == IsExifPath(img) /\ HasUserComment(img)

\* The exception lines 60-72 raise for this image, "" if they raise none:
\* open() of a missing file, json.loads of a comment that is no JSON, a key
\* the comment lacks.
ScaleFault(img) ==
    IF ~img.exists THEN "FileNotFoundError"
    ELSE IF ~ExifFound(img) THEN ""
    ELSE IF ~img.user_comment[1].parses THEN "JSONDecodeError"
    ELSE IF img.user_comment[1].effectivePixelSize = None
              \/ img.user_comment[1].objectiveMag = None
         THEN "KeyError"
    ELSE ""

\* pix_size = user_comment["effectivePixelSize"] / 10**6
PixSize(uc) == Rat(uc.effectivePixelSize[1], Million)

\* mag = user_comment["objectiveMag"]
Mag(uc) == Rat(uc.objectiveMag[1], 1)

\* A measuring loop that goes on to the writing after each record.
AfterRecordWrite(i, n) == "write"

\* Where the run goes after the last shape of record i of n: the next record,
\* or, all records measured, the writing loop.
AfterRecord(i, n) == IF i < n THEN "begin" ELSE "write"

\* Where the run goes once the scale of record i is resolved.
AfterScale(d, i, n) ==
    IF Len(d.shapes[1]) > 0 THEN "shapes" ELSE AfterRecord(i, n)

\* The loop indices when the run moves to `next`.
Move(next) ==
    /\ pc' = next
    /\ ri' = IF next = "begin" THEN ri + 1 ELSE ri
    /\ si' = IF next = "shapes" THEN 1 ELSE si
    /\ wi' = IF next = "write" THEN 1 ELSE wi

\* exif_found when lines 60-72 raise: line 63 has run unless it is open()
\* that raised.
ExifFoundAtFault(img) == img.exists /\ ExifFound(img)

\* pix_size when lines 60-72 raise: line 65 has run when it is the lookup of
\* "objectiveMag" (line 66) that raised; it is None (line 55) otherwise.
PixSizeAtFault(img) ==
    IF /\ ExifFoundAtFault(img)
       /\ img.user_comment[1].parses
       /\ img.user_comment[1].effectivePixelSize # None
    THEN PixSize(img.user_comment[1])
    ELSE None

\* The head of one turn of the measuring loop, up to the OCR call.
BeginRecord ==
    /\ pc = "begin"
    /\ LET d == data[ri].d
           img == images[d.imagePath]
       IN IF ScaleFault(img) # ""
          THEN /\ pc' = "fault"
               /\ fault' = ScaleFault(img)
               /\ pix_size' = PixSizeAtFault(img)
               /\ mag' = None
               /\ exif_found' = ExifFoundAtFault(img)
               /\ UNCHANGED <<ri, si, oi, wi, results, ocr_text_map,
                              unique_numbers, log>>
          ELSE IF ExifFound(img)
          THEN /\ exif_found' = TRUE
               /\ pix_size' = PixSize(img.user_comment[1])
               /\ mag' = Mag(img.user_comment[1])
               /\ Move(AfterScale(d, ri, Len(data)))
               /\ UNCHANGED <<fault, oi, results, ocr_text_map,
                              unique_numbers, log>>
          ELSE /\ exif_found' = FALSE
               /\ pix_size' = <<1, 1>>
               /\ mag' = <<1, 1>>
               /\ log' = log
                    \o (IF IsExifPath(img)
                        THEN <<Msg("no valid EXIF data", d.imagePath)>>
                        ELSE <<>>)
                    \o <<Msg("Using pixel dimensions", d.imagePath)>>
               /\ results' = img.results
               /\ ocr_text_map' = [bound |-> TRUE, items |-> <<>>]
               /\ unique_numbers' = {}
               /\ oi' = 1
               /\ Move(IF img.results # <<>> THEN "ocr"
                       ELSE AfterScale(d, ri, Len(data)))
               /\ UNCHANGED fault
    /\ UNCHANGED <<disk, disk0, scanned, todo, found, pi, data>>

(***************************************************************************)
(* Marker detection (lines 86-106)                                         *)
(***************************************************************************)
\* The centre of a bounding box, doubled.
Center2(bbox) ==
    LET top_left == bbox[1]
        bottom_right == bbox[3]
    IN <<top_left[1] + bottom_right[1], top_left[2] + bottom_right[2]>>

\* A map whose entry is overwritten by a later detection of the same number.
AcceptOverwrite(map, seen, det) ==
    IF IntOf(det.text) \notin seen
    THEN Append(map, [number |-> IntOf(det.text), center2 |-> Center2(det.bbox)])
    ELSE [j \in 1..Len(map) |->
            IF map[j].number = IntOf(det.text)
            THEN [number |-> map[j].number, center2 |-> Center2(det.bbox)]
            ELSE map[j]]

\* The body of `if pattern.match(text)`: the map after one matching detection.
Accept(map, seen, det) ==
    IF IntOf(det.text) \notin seen
    THEN Append(map, [number |-> IntOf(det.text), center2 |-> Center2(det.bbox)])
    ELSE map

\* One turn of the loop over the OCR results.
OcrStep ==
    /\ pc = "ocr"
    /\ LET det == results[oi]
           d == data[ri].d
       IN /\ IF PatternMatch(det.text)
             THEN /\ ocr_text_map' =
                       [ocr_text_map EXCEPT
                          !.items = Accept(@, unique_numbers, det)]
                  /\ unique_numbers' = unique_numbers \cup {IntOf(det.text)}
                  /\ log' = IF IntOf(det.text) \in unique_numbers
                            THEN Append(log, Msg("Duplicate", IntOf(det.text)))
                            ELSE log
             ELSE /\ log' = Append(log, Msg("Ignored", det.text))
                  /\ UNCHANGED <<ocr_text_map, unique_numbers>>
          /\ oi' = oi + 1
          /\ Move(IF oi < Len(results) THEN "ocr"
                  ELSE AfterScale(d, ri, Len(data)))
    /\ UNCHANGED <<disk, disk0, scanned, fault, todo, found, pi, data, pix_size,
                   mag, exif_found, results>>

(***************************************************************************)
(* Area and label (lines 109-133)                                          *)
(***************************************************************************)
\* area = (poly.area * pix_size) / mag
ShapeArea(pts, ps, mg) == RatDiv(RatMul(PolyArea(pts), ps), mg)

\* A comparison that lets a later marker at the same distance win.
DistLessEq(dist, min_distance) == min_distance = None \/ dist <= min_distance[1]

\* distance < min_distance, min_distance being None for float("inf").
DistLess(dist, min_distance) == min_distance = None \/ dist < min_distance[1]

\* closest_text and min_distance after the first i items of the map.
RECURSIVE Closest(_, _, _)
Closest(items, i, cen) ==
    IF i = 0 THEN [closest_text |-> None, min_distance |-> None]
    ELSE LET a == Closest(items, i - 1, cen)
             dist == Dist2(items[i].center2, cen)
         IN IF DistLess(dist, a.min_distance)
            THEN [closest_text |-> <<items[i].number>>, min_distance |-> <<dist>>]
            ELSE a

ClosestText(items, pts) ==
    Closest(items, Len(items), PolyCentroid(pts)).closest_text

\* `if closest_text`
Truthy(closest_text) == closest_text # None /\ closest_text[1] # 0

\* An area label that always names the metric unit.
AreaLabelMetric(area, found_exif) == Str_Area \o FormatF2(area) \o Str_mm2

\* area_label of line 126
AreaLabel(area, found_exif) ==
    Str_Area \o FormatF2(area) \o (IF found_exif THEN Str_mm2 ELSE Str_pixels2)

\* label_text of lines 127-130
LabelText(closest_text, area, found_exif) ==
    IF Truthy(closest_text)
    THEN IntToStr(closest_text[1]) \o Str_dash \o AreaLabel(area, found_exif)
    ELSE AreaLabel(area, found_exif)

\* s["label"] = label_text; s["area"] = area
SetShape(s, label_text, area) ==
    [s EXCEPT !.label = <<label_text>>, !.area = <<area>>]

\* One turn of the loop over the shapes of the record.
MeasureShape ==
    /\ pc = "shapes"
    /\ LET s == data[ri].d.shapes[1][si]
           area == ShapeArea(s.points, pix_size, mag)
           closest_text == ClosestText(ocr_text_map.items, s.points)
       IN IF ~ocr_text_map.bound
          THEN /\ pc' = "fault"
               /\ fault' = "UnboundLocalError"
               /\ UNCHANGED <<data, ri, si, wi>>
          ELSE /\ data' =
                    [data EXCEPT
                       ![ri].d.shapes[1][si] =
                          SetShape(@, LabelText(closest_text, area, exif_found),
                                   area)]
               /\ IF si < Len(data[ri].d.shapes[1])
                  THEN /\ pc' = "shapes"
                       /\ si' = si + 1
                       /\ UNCHANGED <<ri, wi>>
                  ELSE Move(AfterRecord(ri, Len(data)))
               /\ UNCHANGED fault
    /\ UNCHANGED <<disk, disk0, scanned, todo, found, pi, oi, pix_size, mag,
                   exif_found, results, ocr_text_map, unique_numbers, log>>

(***************************************************************************)
(* Persistence (lines 136-140)                                             *)
(***************************************************************************)
\* What json.dump(d, f, indent=2) leaves in the file: text that parses to d.
JsonDump(d) == [parses |-> TRUE, doc |-> d]

\* A writing loop that opens the first record's file every time.
WritePathFirst(dat, i) == dat[1].entry

\* open(entry, 'wt') for the i-th item of data
WritePath(dat, i) == dat[i].entry

\* One turn of the writing loop.
WriteFile ==
    /\ pc = "write"
    /\ disk' = [disk EXCEPT ![WritePath(data, wi)] = JsonDump(data[wi].d)]
    /\ wi' = wi + 1
    /\ pc' = IF wi < Len(data) THEN "write" ELSE "done"
    /\ UNCHANGED <<disk0, scanned, fault, todo, found, pi, data, ri, si, oi,
                   pix_size, mag, exif_found, results, ocr_text_map,
                   unique_numbers, log>>

Next == ScanDir \/ ParseFile \/ BeginRecord \/ OcrStep \/ MeasureShape \/ WriteFile

Spec == Init /\ [][Next]_vars

SpecOcr == InitOcr /\ [][Next]_vars

(***************************************************************************)
(* Vocabulary of the properties                                            *)
(***************************************************************************)
EndsWith(s, t) ==
    /\ Len(s) >= Len(t)
    /\ SubSeq(s, Len(s) - Len(t) + 1, Len(s)) = t

StartsWith(s, t) ==
    /\ Len(s) >= Len(t)
    /\ SubSeq(s, 1, Len(t)) = t

Recs == 1..Len(data)

ShapesOf(i) == data[i].d.shapes[1]

ImageOf(i) == images[data[i].d.imagePath]

\* The image carries a user comment that is JSON with both keys.
MetaValid(img) ==
    /\ IsExifPath(img) /\ img.exists /\ img.has_exif
    /\ img.user_comment # None
    /\ img.user_comment[1].parses
    /\ img.user_comment[1].effectivePixelSize # None
    /\ img.user_comment[1].objectiveMag # None

\* How many shapes of record i have been measured.
NumMeasured(i) ==
    IF i < ri \/ (i = ri /\ pc \in {"write", "done"}) THEN Len(ShapesOf(i))
    ELSE IF i = ri /\ pc = "shapes" THEN si - 1
    ELSE 0

\* The run ended with an exception while record i was being measured.
FaultAt(i) == pc = "fault" /\ ri = i

Unit_mm2 == <<"m", "m", "²">>
Unit_pixels2 == <<"p", "i", "x", "e", "l", "s", "²">>

\* The label begins with a number followed by " - ".
MarkerPrefixes == {IntToStr(n) \o Str_dash : n \in 0..99}

HasMarkerPrefix(label) == \E pre \in MarkerPrefixes : StartsWith(label, pre)

PrefixNumber(label) ==
    CHOOSE n \in 0..99 : StartsWith(label, IntToStr(n) \o Str_dash)

\* The numbers of the detections of an image that the pattern accepts.
OwnNumbers(img) ==
    {IntOf(img.results[j].text) :
        j \in {k \in 1..Len(img.results) : PatternMatch(img.results[k].text)}}

\* The text is the decimal numeral of an integer 1..12.
Canonical(text) == \E n \in 1..12 : text = IntToStr(n)

(***************************************************************************)
(* C1: every kept record whose image carries valid metadata (e, m) is      *)
(* measured to completion, wherever it stands in the processing order, and *)
(* each of its shapes gets area = A * (e / 10^6) / m, A the polygon's      *)
(* area, and a label ending in "mm²".                                      *)
(***************************************************************************)
C1_MetadataArea ==
    \A i \in Recs :
        MetaValid(ImageOf(i)) =>
            /\ ~FaultAt(i)
            /\ \A k \in 1..NumMeasured(i) :
                 LET s == ShapesOf(i)[k]
                     uc == ImageOf(i).user_comment[1]
                     A == PolyArea(s.points)
                 IN /\ s.area # None
                    /\ s.area[1][1] * (A[2] * Million * uc.objectiveMag[1])
                         = s.area[1][2] * (A[1] * uc.effectivePixelSize[1])
                    /\ EndsWith(s.label[1], Unit_mm2)

(***************************************************************************)
(* C2: markers are per image.  A shape of a record measured with the       *)
(* metadata scale never gets a marker prefix, and the marker of a shape of *)
(* a record measured in the fallback branch is one detected in that        *)
(* record's own image.                                                     *)
(***************************************************************************)
C2_MarkersPerImage ==
    \A i \in Recs :
        \A k \in 1..NumMeasured(i) :
            LET label == ShapesOf(i)[k].label[1]
            IN IF ExifFound(ImageOf(i))
               THEN ~HasMarkerPrefix(label)
               ELSE HasMarkerPrefix(label) =>
                        PrefixNumber(label) \in OwnNumbers(ImageOf(i))

(***************************************************************************)
(* C7: a record whose image has the EXIF extension but no usable user      *)
(* comment (no EXIF block, no user comment, or a comment that is not JSON  *)
(* with both keys) does not abort the run: a warning is printed, the       *)
(* record is measured with scale 1 and magnification 1 after marker        *)
(* detection, and its labels are in "pixels²".  The metadata values are    *)
(* the scale if and only if exif_found, (1, 1) otherwise.                  *)
(***************************************************************************)
C7_MetadataFallback ==
    /\ \A i \in Recs :
         LET img == ImageOf(i)
         IN (IsExifPath(img) /\ img.exists /\ ~MetaValid(img)) =>
              /\ ~FaultAt(i)
              /\ (i = ri /\ pc \in {"ocr", "shapes"}) =>
                   /\ ~exif_found
                   /\ pix_size = <<1, 1>> /\ mag = <<1, 1>>
                   /\ ocr_text_map.bound /\ results = img.results
                   /\ \E j \in 1..Len(log) :
                        /\ log[j].kind = "no valid EXIF data"
                        /\ log[j].arg = data[i].d.imagePath
              /\ \A k \in 1..NumMeasured(i) :
                   /\ EndsWith(ShapesOf(i)[k].label[1], Unit_pixels2)
                   /\ ShapesOf(i)[k].area[1] = PolyArea(ShapesOf(i)[k].points)
    /\ pc \in {"ocr", "shapes"} =>
         IF exif_found
         THEN /\ MetaValid(ImageOf(ri))
              /\ pix_size[1] * Million
                   = pix_size[2] * ImageOf(ri).user_comment[1].effectivePixelSize[1]
              /\ mag = <<ImageOf(ri).user_comment[1].objectiveMag[1], 1>>
         ELSE pix_size = <<1, 1>> /\ mag = <<1, 1>>

(***************************************************************************)
(* C5: a detection enters the marker mapping only if its text is exactly   *)
(* the decimal numeral of an integer 1..12, with no other character; every *)
(* key of the mapping is an integer in 1..12.                              *)
(***************************************************************************)
C5_MarkerFilter ==
    \A m \in 1..Len(ocr_text_map.items) :
        /\ ocr_text_map.items[m].number \in 1..12
        /\ \A j \in 1..Len(results) :
             Center2(results[j].bbox) = ocr_text_map.items[m].center2
                 => Canonical(results[j].text)

(***************************************************************************)
(* C3: a shape of a record whose image has detected markers gets the       *)
(* marker whose centre is nearest to the shape's centroid; among markers   *)
(* at the same least distance the first of the mapping is attached; the    *)
(* nearest marker is attached however far it is.                           *)
(***************************************************************************)
\* The scaled squared distance of item j of the current mapping to shape s.
ItemDist(j, s) == Dist2(ocr_text_map.items[j].center2, PolyCentroid(s.points))

\* Item j is attached to the label.
Attached(j, label) ==
    StartsWith(label, IntToStr(ocr_text_map.items[j].number) \o Str_dash)

C3_NearestMarker ==
    (ri >= 1 /\ ~exif_found /\ ocr_text_map.items # <<>>) =>
        \A k \in 1..NumMeasured(ri) :
            LET s == ShapesOf(ri)[k]
                n == Len(ocr_text_map.items)
            IN \E j \in 1..n :
                 /\ Attached(j, s.label[1])
                 /\ \A m \in 1..n : ItemDist(j, s) <= ItemDist(m, s)
                 /\ \A m \in 1..(j - 1) : ItemDist(m, s) > ItemDist(j, s)

\* A measured shape with two markers at the same least distance, and one
\* whose nearest marker is not the first of the mapping.
C3_Witness ==
    /\ pc = "done"
    /\ Len(ocr_text_map.items) >= 2
    /\ ItemDist(1, ShapesOf(1)[1]) = ItemDist(2, ShapesOf(1)[1])
    /\ Attached(1, ShapesOf(1)[1].label[1])
    /\ Attached(2, ShapesOf(1)[2].label[1])

(***************************************************************************)
(* C4: after any prefix of the detections of an image the mapping holds at *)
(* most one centre per number, the centre being the half sum of the        *)
(* top-left and bottom-right corners of the first accepted detection of    *)
(* that number; a later detection of the number changes nothing and is     *)
(* reported as a duplicate.                                                *)
(***************************************************************************)
\* How many detections of the current image the loop has handled.
Processed ==
    IF pc = "ocr" THEN oi - 1
    ELSE IF ocr_text_map.bound THEN Len(results) ELSE 0

\* The handled detections that read as the number n.
Hits(n) ==
    {j \in 1..Processed :
        PatternMatch(results[j].text) /\ IntOf(results[j].text) = n}

FirstHit(n) == CHOOSE j \in Hits(n) : \A k \in Hits(n) : j <= k

DuplicatesLogged == Cardinality({j \in 1..Len(log) : log[j].kind = "Duplicate"})

C4_MarkerUniqueness ==
    LET items == ocr_text_map.items
    IN /\ \A a, b \in 1..Len(items) :
            items[a].number = items[b].number => a = b
       /\ \A a \in 1..Len(items) :
            /\ Hits(items[a].number) # {}
            /\ LET bbox == results[FirstHit(items[a].number)].bbox
               IN items[a].center2
                    = <<bbox[1][1] + bbox[3][1], bbox[1][2] + bbox[3][2]>>
       /\ \A n \in 1..12 :
            Hits(n) # {} => \E a \in 1..Len(items) : items[a].number = n
       /\ DuplicatesLogged
            = Cardinality(UNION {Hits(n) : n \in 1..12}) - Len(items)

\* A number was detected twice and both detections have been handled.
C4_Witness ==
    /\ pc = "done"
    /\ \E n \in 1..12 : Cardinality(Hits(n)) >= 2
    /\ DuplicatesLogged >= 1

(***************************************************************************)
(* C6: a file that parses and has no "shapes" key is not kept, a warning   *)
(* is printed, the run goes on with the other files, and the file is never *)
(* written: its content stays what it was when the run started.            *)
(***************************************************************************)
NoShapesKey(p) == disk0[p].parses /\ disk0[p].doc.shapes = None

\* The parsing loop has handled the file p.
Parsed(p) == \E j \in 1..Len(found) : found[j] = p /\ j < pi

C6_NoShapesUntouched ==
    \A p \in DOMAIN disk :
        NoShapesKey(p) =>
            /\ disk[p] = disk0[p]
            /\ \A i \in Recs : data[i].entry # p
            /\ Parsed(p) =>
                 \E j \in 1..Len(log) :
                     log[j].kind = "no shapes data" /\ log[j].arg = p
            /\ ~(pc = "fault" /\ ri = 0 /\ found[pi] = p)

\* A finished run that dropped one file and rewrote another.
C6_Witness ==
    /\ pc = "done"
    /\ \E p, q \in DOMAIN disk : NoShapesKey(p) /\ disk[q] # disk0[q]

(***************************************************************************)
(* C8: what a finished run wrote differs from what it parsed only in the   *)
(* area and label of each shape: the other top-level fields, the other     *)
(* fields of each shape, and the number and order of the shapes are the    *)
(* same; each kept record is written to its own path and no other file     *)
(* changes.                                                                *)
(***************************************************************************)
StripShape(s) == [s EXCEPT !.label = None, !.area = None]

StripDoc(d) ==
    [d EXCEPT !.shapes = <<[k \in 1..Len(d.shapes[1]) |-> StripShape(d.shapes[1][k])]>>]

Kept(p) == \E i \in Recs : data[i].entry = p

C8_RoundTrip ==
    /\ \A p \in DOMAIN disk :
         \/ disk[p] = disk0[p]
         \/ /\ Kept(p)
            /\ disk[p].parses /\ disk0[p].parses
            /\ StripDoc(disk[p].doc) = StripDoc(disk0[p].doc)
    /\ pc = "done" =>
         \A i \in Recs :
             /\ disk[data[i].entry].doc = data[i].d
             /\ \A k \in 1..Len(ShapesOf(i)) :
                  ShapesOf(i)[k].label # None /\ ShapesOf(i)[k].area # None

\* A finished run that wrote two records, one of which had a label before.
C8_Witness ==
    /\ pc = "done"
    /\ Len(data) >= 2
    /\ data[1].d # data[2].d
    /\ \E p \in DOMAIN disk :
         /\ Kept(p)
         /\ \E k \in 1..Len(disk0[p].doc.shapes[1]) :
              /\ disk0[p].doc.shapes[1][k].label # None
              /\ disk[p].doc.shapes[1][k].label # disk0[p].doc.shapes[1][k].label

(***************************************************************************)
(* C9: the label of a shape.                                               *)
(***************************************************************************)
\* The label the step that measures shape si of record ri has to write,
\* `lead` standing between the marker prefix and the number.
LabelWritten(lead) ==
    LET s == data[ri].d.shapes[1][si]
        t == data'[ri].d.shapes[1][si]
        m == ClosestText(ocr_text_map.items, s.points)
    IN t.label[1]
         = (IF m # None THEN IntToStr(m[1]) \o Str_dash ELSE <<>>)
             \o lead \o FormatF2(t.area[1]) \o <<" ">>
             \o (IF exif_found THEN Unit_mm2 ELSE Unit_pixels2)

\* C9 as stated: the label is "{area:.2f} mm²" when the metadata scale
\* applied and "{area:.2f} pixels²" otherwise, preceded by "{marker} - " if
\* and only if a marker was matched, and holds nothing else.
C9_Original ==
    [][(pc = "shapes" /\ pc' # "fault") => LabelWritten(<<>>)]_vars

\* C9 as the code has it: the label is "Area: {area:.2f} mm²" when the
\* metadata scale applied and "Area: {area:.2f} pixels²" otherwise, preceded
\* by "{marker} - " if and only if a marker was matched, and holds nothing
\* else.
C9_LabelFormat ==
    [][(pc = "shapes" /\ pc' # "fault") => LabelWritten(Str_Area)]_vars

\* A shape with centroid (102, 101) and the marker 7 at (100, 100) has been
\* labelled, and so has a shape with no marker at all.
C9_Witness ==
    /\ \E i \in Recs : \E k \in 1..NumMeasured(i) :
         ShapesOf(i)[k].label[1]
           = <<"7", " ", "-", " ", "A", "r", "e", "a", ":", " ", "8", ".", "0",
               "0", " ", "p", "i", "x", "e", "l", "s", "²">>
    /\ \E i \in Recs : \E k \in 1..NumMeasured(i) :
         ShapesOf(i)[k].label[1]
           = <<"A", "r", "e", "a", ":", " ", "5", "0", ".", "0", "0", " ", "p",
               "i", "x", "e", "l", "s", "²">>

(***************************************************************************)
(* C10: when records are written.                                          *)
(***************************************************************************)
Measuring == pc \in {"begin", "ocr", "shapes"}

\* C10 as stated: each record is written before the measurement of the next
\* begins, so when the run aborts while measuring record k the files of the
\* records before k hold their results.
C10_Original ==
    (Measuring \/ pc = "fault") =>
        \A j \in Recs : j < ri => disk[data[j].entry] = JsonDump(data[j].d)

\* C10 as the code has it: nothing is written until every kept record has
\* been measured; the records are then written in processing order; when the
\* run aborts while measuring a record, no file has been written and the
\* disk is as it was when the run started.
C10_WriteAfterMeasure ==
    /\ (pc \in {"scan", "parse", "fault"} \/ Measuring) => disk = disk0
    /\ (pc \in {"write", "done"} /\ Len(data) > 0) =>
         /\ ri = Len(data)
         /\ \A i \in Recs : \A k \in 1..Len(ShapesOf(i)) :
              ShapesOf(i)[k].area # None
    /\ pc = "write" =>
         \A i \in Recs :
             disk[data[i].entry]
               = IF i < wi THEN JsonDump(data[i].d) ELSE disk0[data[i].entry]
    /\ pc = "done" =>
         \A i \in Recs : disk[data[i].entry] = JsonDump(data[i].d)

\* The run aborted while measuring the second record, after the first was
\* measured in memory, and the first record's file is still as it was.
C10_Witness ==
    /\ pc = "fault"
    /\ ri = 2
    /\ ShapesOf(1) # <<>>
    /\ ShapesOf(1)[1].area # None
    /\ disk0[data[1].entry].doc.shapes[1][1].area = None
    /\ disk = disk0
====
